---- MODULE Spec2Model ----
(***************************************************************************)
(* A model of markdown-latex (src/src/main.rs): the three-stage pipeline   *)
(* preprocess -> event translation -> postprocess, and the text            *)
(* replacement engine under it.                                            *)
(*                                                                         *)
(* Text is modelled as a sequence of one-character strings, so that the    *)
(* substring replacements and the regular expressions of the source act on *)
(* characters exactly as they do in the program.                           *)
(***************************************************************************)
EXTENDS Integers, Sequences, FiniteSets, TLC

VARIABLES
    \* iteration order of the two static HashMaps (fixed for one process)
    pre_order, in_order,
    \* harness of the replacement engine
    r_table, r_text, r_out, r_back, r_pc,
    \* harness of postprocess
    p_text, p_once, p_twice, p_pc,
    \* preprocess: its input, the line iterator, its locals and its position
    markdown, lines, pre_output, label, content, pre_pc,
    \* convert_markdown_to_latex: its locals, and whether it has panicked
    output, inside_image, image_url, image_caption, codeblock_status, first_cell,
    is_add_heading_to_contents, heading_content_string, panicked,
    \* the external parser: free-running, with the containers it has open and
    \* the events it may still start, or run on the preprocessed text, with
    \* the events it is still to yield; and the kind and tag of the event it
    \* yielded last
    parser, open, budget, events, yielded,
    \* the run of the pipeline: its position, its result, and the result of
    \* an earlier run of the program on the same input
    pc, latex, run, first_latex

orderVars == <<pre_order, in_order>>
replVars == <<r_table, r_text, r_out, r_back, r_pc>>
postVars == <<p_text, p_once, p_twice, p_pc>>
preVars == <<markdown, lines, pre_output, label, content, pre_pc>>
transVars ==
    <<output, inside_image, image_url, image_caption, codeblock_status, first_cell,
      is_add_heading_to_contents, heading_content_string, panicked>>
envVars == <<parser, open, budget, events, yielded>>
pipeVars == <<pc, latex, run, first_latex>>
vars == <<orderVars, replVars, postVars, preVars, transVars, envVars, pipeVars>>

\* What the actions of each part leave alone.
replFrame == <<orderVars, postVars, preVars, transVars, envVars, pipeVars>>
postFrame == <<orderVars, replVars, preVars, transVars, envVars, pipeVars>>
preFrame == <<orderVars, replVars, postVars, transVars, envVars, pipeVars>>

\* The parts of the state a specification does not use stay idle.
ReplIdle ==
    /\ r_table = "none"
    /\ r_text = <<>>
    /\ r_out = <<>>
    /\ r_back = <<>>
    /\ r_pc = "idle"

PostIdle ==
    /\ p_text = <<>>
    /\ p_once = <<>>
    /\ p_twice = <<>>
    /\ p_pc = "idle"

PreIdle ==
    /\ markdown = <<>>
    /\ lines = <<>>
    /\ pre_output = <<>>
    /\ label = <<>>
    /\ content = <<>>
    /\ pre_pc = "idle"

\* Option<String>: None, or Some(value)
None == [is_some |-> FALSE, value |-> <<>>]

Some(v) == [is_some |-> TRUE, value |-> v]

\* enum CustomCodeBlockKind { None, Code(Option<CowStr>), RawLatex, Equation }
KindNone == [kind |-> "None", lang |-> None]

KindCode(lang) == [kind |-> "Code", lang |-> lang]

KindRawLatex == [kind |-> "RawLatex", lang |-> None]

KindEquation == [kind |-> "Equation", lang |-> None]

\* the locals of convert_markdown_to_latex as they are declared
TransStart ==
    /\ output = <<>>
    /\ inside_image = FALSE
    /\ image_url = <<>>
    /\ image_caption = <<>>
    /\ codeblock_status = KindNone
    /\ first_cell = TRUE
    /\ is_add_heading_to_contents = FALSE
    /\ heading_content_string = None
    /\ panicked = FALSE

EnvIdle ==
    /\ parser = "idle"
    /\ yielded = <<"-", "-">>
    /\ open = <<>>
    /\ budget = 0
    /\ events = <<>>

PipeIdle ==
    /\ pc = "idle"
    /\ latex = <<>>
    /\ run = 0
    /\ first_latex = <<>>

(***************************************************************************)
(* Strings                                                                 *)
(***************************************************************************)

\* The backtick character (a string literal cannot hold it).
BT == "BACKTICK"

\* Bounds of the enumerated inputs.
MaxReplLen == 3
MaxPostPieces == 4
MaxPreLines == 3

\* All sequences over alphabet of length at most n.
RECURSIVE SeqsUpTo(_, _)
SeqsUpTo(alphabet, n) ==
    IF n = 0 THEN {<<>>}
    ELSE LET shorter == SeqsUpTo(alphabet, n - 1)
         IN shorter \cup {Append(s, c) : s \in shorter, c \in alphabet}

\* The least element of a non-empty set of numbers.
Min(set) == CHOOSE k \in set : \A m \in set : k <= m

\* s without its first n characters.
Drop(s, n) == SubSeq(s, n + 1, Len(s))

\* Whether p is a prefix of s.
StartsWith(s, p) == Len(p) <= Len(s) /\ SubSeq(s, 1, Len(p)) = p

\* str::replace: every non-overlapping occurrence of from, left to right.
RECURSIVE Replace(_, _, _)
Replace(s, from, to) ==
    IF Len(s) < Len(from) \/ Len(from) = 0 THEN s
    ELSE IF StartsWith(s, from) THEN to \o Replace(Drop(s, Len(from)), from, to)
    ELSE <<Head(s)>> \o Replace(Tail(s), from, to)

(***************************************************************************)
(* The replacement tables, entries <<md, latex>> in source order           *)
(***************************************************************************)

PRE_REPLACEMENT_TABLE ==
    << <<  <<"[", BT>>, <<"\\", "c", "i", "t", "e", "{">>  >>,
       <<  <<BT, "]">>, <<"}">>  >>,
       <<  <<"[", "*">>, <<"\\", "r", "e", "f", "{">>  >>,
       <<  <<"*", "]">>, <<"}">>  >> >>

IN_TEXT_REPLACEMENT_TABLE ==
    << <<  <<"&">>, <<"\\", "&">>  >>,
       <<  <<"%">>, <<"\\", "%">>  >>,
       <<  <<"_">>, <<"\\", "_">>  >>,
       <<  <<"#">>, <<"\\", "#">>  >>,
       <<  <<"{">>, <<"\\", "{">>  >>,
       <<  <<"}">>, <<"\\", "}">>  >> >>

\* The orders a HashMap of n entries may be iterated in: every permutation.
IterationOrders(n) ==
    {p \in [1..n -> 1..n] : \A i, j \in 1..n : i # j => p[i] # p[j]}

PreOrders == IterationOrders(Len(PRE_REPLACEMENT_TABLE))

InTextOrders == IterationOrders(Len(IN_TEXT_REPLACEMENT_TABLE))

\* The order the source lists the entries in.
SourceOrder(table) == [i \in 1..Len(table) |-> i]

\* apply_text_replacements: `for (md, latex) in table`, the entries visited
\* in the order the map yields them.
RECURSIVE ApplyFrom(_, _, _, _)
ApplyFrom(replaced, table, order, i) ==
    IF i > Len(table) THEN replaced
    ELSE ApplyFrom(Replace(replaced, table[order[i]][1], table[order[i]][2]),
                   table, order, i + 1)

apply_text_replacements(text, table, order) == ApplyFrom(text, table, order, 1)

\* apply_text_replacements_inversedly: the same loop, latex back to md.
\* an inverse that strips every backslash
InverseStrippingBackslashes(text, table, order) ==
    SelectSeq(text, LAMBDA c : c # "\\")

RECURSIVE ApplyInverseFrom(_, _, _, _)
ApplyInverseFrom(replaced, table, order, i) ==
    IF i > Len(table) THEN replaced
    ELSE ApplyInverseFrom(Replace(replaced, table[order[i]][2], table[order[i]][1]),
                          table, order, i + 1)

apply_text_replacements_inversedly(text, table, order) ==
    ApplyInverseFrom(text, table, order, 1)

(***************************************************************************)
(* preprocess                                                              *)
(***************************************************************************)

IsSpace(c) == c \in {" ", "\t", "\n", "\r"}

\* str::trim_start and str::trim_end
RECURSIVE TrimStart(_)
TrimStart(s) == IF s # <<>> /\ IsSpace(Head(s)) THEN TrimStart(Tail(s)) ELSE s

RECURSIVE TrimEnd(_)
TrimEnd(s) ==
    IF s # <<>> /\ IsSpace(s[Len(s)]) THEN TrimEnd(SubSeq(s, 1, Len(s) - 1)) ELSE s

Trim(s) == TrimEnd(TrimStart(s))

\* str::trim_start_matches: the prefix is removed as often as it is there.
RECURSIVE TrimStartMatches(_, _)
TrimStartMatches(s, p) ==
    IF StartsWith(s, p) THEN TrimStartMatches(Drop(s, Len(p)), p) ELSE s

\* str::lines: the text split at line feeds; the last line needs none.
RECURSIVE Lines(_)
Lines(s) ==
    IF s = <<>> THEN <<>>
    ELSE LET feeds == {k \in 1..Len(s) : s[k] = "\n"}
         IN IF feeds = {} THEN <<s>>
            ELSE <<SubSeq(s, 1, Min(feeds) - 1)>> \o Lines(Drop(s, Min(feeds)))

S_dollars == <<"$", "$">>
S_fence == <<BT, BT, BT>>
S_raw_opener == <<BT, BT, BT, "l", "a", "t", "e", "x", " ", "r", "a", "w">>
S_block_equation ==
    <<BT, BT, BT, " ", "b", "l", "o", "c", "k", "_", "e", "q", "u", "a", "t", "i", "o", "n">>

\* The opening fence of a rewritten equation block: the literal
\* "``` block_equation{}\n" for an empty label, and
\* format!("``` block_equation{}\n", label) otherwise, where {} is the
\* placeholder the label is put in.
EquationFence(lbl) ==
    IF lbl = <<>> THEN S_block_equation \o <<"{", "}", "\n">>
    ELSE S_block_equation \o lbl \o <<"\n">>

\* let mut output = String::new(); let mut lines = input.lines().peekable();
PreStart ==
    /\ pre_pc = "start"
    /\ lines' = Lines(markdown)
    /\ pre_output' = <<>>
    /\ pre_pc' = "scan"
    /\ UNCHANGED <<preFrame, markdown, label, content>>

\* outer loop, a line that opens an equation block
PreOpenEquation ==
    /\ pre_pc = "scan"
    /\ lines # <<>>
    /\ StartsWith(Trim(Head(lines)), S_dollars)
    /\ label' = Trim(TrimStartMatches(Trim(Head(lines)), S_dollars))
    /\ content' = <<>>
    /\ lines' = Tail(lines)
    /\ pre_pc' = "equation"
    /\ UNCHANGED <<preFrame, markdown, pre_output>>

\* inner loop of the equation block, a line other than the closing $$
PreEquationLine ==
    /\ pre_pc = "equation"
    /\ lines # <<>>
    /\ Trim(Head(lines)) # S_dollars
    /\ content' = content \o Head(lines) \o <<"\n">>
    /\ lines' = Tail(lines)
    /\ UNCHANGED <<preFrame, markdown, pre_output, label, pre_pc>>

\* an end of the equation block that emits the closing fence only when it
\* has met the closing $$
PreCloseEquationWithoutFence ==
    /\ pre_pc = "equation"
    /\ IF lines = <<>> THEN TRUE ELSE Trim(Head(lines)) = S_dollars
    /\ lines' = IF lines = <<>> THEN lines ELSE Tail(lines)
    /\ pre_output' = pre_output \o EquationFence(label) \o content
                         \o (IF lines = <<>> THEN <<>> ELSE S_fence \o <<"\n">>)
    /\ pre_pc' = "scan"
    /\ UNCHANGED <<preFrame, markdown, label, content>>

\* the inner loop ends, at the closing $$ (consumed) or at the end of the
\* input, and the fenced block is emitted
PreCloseEquation ==
    /\ pre_pc = "equation"
    /\ IF lines = <<>> THEN TRUE ELSE Trim(Head(lines)) = S_dollars
    /\ lines' = IF lines = <<>> THEN lines ELSE Tail(lines)
    /\ pre_output' = pre_output \o EquationFence(label) \o content \o S_fence \o <<"\n">>
    /\ pre_pc' = "scan"
    /\ UNCHANGED <<preFrame, markdown, label, content>>

\* outer loop, a line that opens a raw-LaTeX block
PreOpenRaw ==
    /\ pre_pc = "scan"
    /\ lines # <<>>
    /\ ~StartsWith(Trim(Head(lines)), S_dollars)
    /\ StartsWith(Trim(Head(lines)), S_raw_opener)
    /\ pre_output' = pre_output \o Head(lines) \o <<"\n">>
    /\ lines' = Tail(lines)
    /\ pre_pc' = "raw"
    /\ UNCHANGED <<preFrame, markdown, label, content>>

\* inner loop of the raw block: both branches of the test for the closing
\* fence copy the line and go on with the loop
PreRawLine ==
    /\ pre_pc = "raw"
    /\ lines # <<>>
    /\ pre_output' = pre_output \o Head(lines) \o <<"\n">>
    /\ lines' = Tail(lines)
    /\ UNCHANGED <<preFrame, markdown, label, content, pre_pc>>

\* the inner loop of the raw block ends when no line is left
PreRawEnd ==
    /\ pre_pc = "raw"
    /\ lines = <<>>
    /\ pre_pc' = "scan"
    /\ UNCHANGED <<preFrame, markdown, lines, pre_output, label, content>>

\* outer loop, any other line
PreOrdinaryLine ==
    /\ pre_pc = "scan"
    /\ lines # <<>>
    /\ ~StartsWith(Trim(Head(lines)), S_dollars)
    /\ ~StartsWith(Trim(Head(lines)), S_raw_opener)
    /\ pre_output' = pre_output
           \o apply_text_replacements(Head(lines), PRE_REPLACEMENT_TABLE, pre_order)
           \o <<"\n">>
    /\ lines' = Tail(lines)
    /\ UNCHANGED <<preFrame, markdown, label, content, pre_pc>>

\* the outer loop ends and preprocess returns output
PreReturn ==
    /\ pre_pc = "scan"
    /\ lines = <<>>
    /\ pre_pc' = "done"
    /\ UNCHANGED <<preFrame, markdown, lines, pre_output, label, content>>

(***************************************************************************)
(* preprocess on its own                                                   *)
(***************************************************************************)

\* A text of the given lines, each ended by a line feed.
RECURSIVE JoinLines(_)
JoinLines(ls) == IF ls = <<>> THEN <<>> ELSE Head(ls) \o <<"\n">> \o JoinLines(Tail(ls))

PreLineSet ==
    { <<"$", "$", " ", "L">>,
      <<"$", "$">>,
      <<"x">>,
      S_raw_opener,
      S_fence,
      <<"[", BT, "k", BT, "]">> }

InitPre ==
    /\ TransStart
    /\ EnvIdle
    /\ PipeIdle
    /\ ReplIdle
    /\ PostIdle
    /\ pre_order \in PreOrders
    /\ in_order = SourceOrder(IN_TEXT_REPLACEMENT_TABLE)
    /\ markdown \in {JoinLines(ls) : ls \in SeqsUpTo(PreLineSet, MaxPreLines)}
    /\ lines = <<>>
    /\ pre_output = <<>>
    /\ label = <<>>
    /\ content = <<>>
    /\ pre_pc = "start"

NextPre ==
    \/ PreStart
    \/ PreOpenEquation
    \/ PreEquationLine
    \/ PreCloseEquation
    \/ PreOpenRaw
    \/ PreRawLine
    \/ PreRawEnd
    \/ PreOrdinaryLine
    \/ PreReturn

SpecPre == InitPre /\ [][NextPre]_vars

\* preprocess as a loop that goes on until it returns.  (The iteration order
\* of the table does not bear on which lines the loop consumes; it is the
\* order of the source here.)
InitPreFair == InitPre /\ pre_order = SourceOrder(PRE_REPLACEMENT_TABLE)

SpecPreFair == InitPreFair /\ [][NextPre]_vars /\ WF_vars(NextPre)

\* The block a line-by-line reading is in after the given lines, as the
\* design describes the two line-oriented extensions: an equation block runs
\* from a $$ line to the next line that is exactly $$, a raw-LaTeX block from
\* its opener to the first closing fence.
RECURSIVE ModeFrom(_, _)
ModeFrom(mode, ls) ==
    IF ls = <<>> THEN mode
    ELSE LET trimmed == Trim(Head(ls))
             next == CASE mode = "equation" ->
                              IF trimmed = S_dollars THEN "scan" ELSE "equation"
                       [] mode = "raw" ->
                              IF trimmed = S_fence THEN "scan" ELSE "raw"
                       [] OTHER ->
                              IF StartsWith(trimmed, S_dollars) THEN "equation"
                              ELSE IF StartsWith(trimmed, S_raw_opener) THEN "raw"
                              ELSE "scan"
         IN ModeFrom(next, Tail(ls))

\* The lines of the input preprocess has consumed.
Consumed == SubSeq(Lines(markdown), 1, Len(Lines(markdown)) - Len(lines))

IsOrdinaryLine(line) ==
    /\ ~StartsWith(Trim(line), S_dollars)
    /\ ~StartsWith(Trim(line), S_raw_opener)

\* C4: verbatim copying of a raw-LaTeX block ends at, and includes, the first
\* closing fence: a line that follows a closed block (and is in no other
\* block) is processed normally, i.e. it is emitted with the pre-pass
\* replacement table applied.
C4_LinesAfterRawBlockProcessed ==
    [][(/\ pre_pc \in {"scan", "equation", "raw"}
        /\ lines # <<>>
        /\ ModeFrom("scan", Consumed) = "scan"
        /\ IsOrdinaryLine(Head(lines)))
       => pre_output' = pre_output
              \o apply_text_replacements(Head(lines), PRE_REPLACEMENT_TABLE, pre_order)
              \o <<"\n">>]_vars

(***************************************************************************)
(* The external parser.  Event::Start(Tag::X(..)) is [kind |-> "Start",    *)
(* tag |-> "X", ..], Event::End(Tag::X(..)) is [kind |-> "End", tag |->    *)
(* "X", ..], and an event without a tag has tag "-".                       *)
(*                                                                         *)
(* The parser is either run on the preprocessed text (parser = "text"):    *)
(* then it yields the events of `events` in order; or it is free-running   *)
(* (parser = "free"): then it yields any event sequence in which every     *)
(* container has a matched Start/End pair, `open` is the stack of the      *)
(* containers it has open, and it yields at most `budget` events that are  *)
(* not an End.                                                             *)
(***************************************************************************)

\* An open container: its tag and payload, the cells it has had (a table
\* head or row), and the Text events yielded inside it so far, concatenated.
Entry(tag) ==
    [tag |-> tag, cells |-> 0, level |-> 0, classes |-> {}, ordered |-> FALSE,
     url |-> <<>>, text |-> <<>>]

Top == IF open = <<>> THEN Entry("Document") ELSE open[Len(open)]

Pop == SubSeq(open, 1, Len(open) - 1)

BlockContext == Top.tag \in {"Document", "BlockQuote"}

InlineContext ==
    Top.tag \in {"Heading", "Paragraph", "TableCell", "Item", "Emphasis", "Strong",
                 "Link", "Image", "Strikethrough"}

\* The payloads a free-running parser draws from.
HeadingLevels == 1..6

HeadingClassSets == SUBSET {"unnumbered", "add-contents"}

Texts == { <<"T">>, <<"a", " ", "&", " ", "b">> }

Codes == { <<"c", "_">> }

Urls == { <<"u">> }

AlignmentLists == { <<"Left", "Right">>, <<"None", "Center">> }

\* CodeBlockKind: Indented, or Fenced with its fence-info
CodeBlockKinds ==
    { [fenced |-> FALSE, info |-> <<>>],
      [fenced |-> TRUE, info |-> <<>>],
      [fenced |-> TRUE, info |-> <<"r", "s">>],
      [fenced |-> TRUE, info |-> <<"l", "a", "t", "e", "x", " ", "r", "a", "w">>],
      [fenced |-> TRUE, info |-> <<"r", "a", "w", " ", " ", "l", "a", "t", "e",
                                   "x">>],
      [fenced |-> TRUE, info |-> <<"b", "l", "o", "c", "k", "_", "e", "q", "u",
                                   "a", "t",
                                   "i", "o",
                                   "n", "{",
                                   "}">>],
      [fenced |-> TRUE, info |-> <<"b", "l", "o", "c", "k", "_", "e", "q", "u",
                                   "a", "t",
                                   "i", "o",
                                   "n", "{",
                                   "L", "}">>] }

\* Whether the grammar of the event stream allows the event next.
Grammar(kind, tag) ==
    CASE kind = "Start" /\ tag \in {"Table", "Heading", "Paragraph", "List",
                                    "CodeBlock", "BlockQuote"} -> BlockContext
      [] kind = "Start" /\ tag = "TableHead" -> Top.tag = "Table"
      [] kind = "Start" /\ tag = "TableRow" -> Top.tag = "TableBody"
      [] kind = "Start" /\ tag = "TableCell" -> Top.tag \in {"TableHead", "TableRow"}
      [] kind = "Start" /\ tag = "Item" -> Top.tag = "List"
      [] kind = "Start" -> InlineContext
      [] kind = "End" /\ tag \in {"TableHead", "TableRow"} ->
             Top.tag = tag /\ Top.cells >= 1
      [] kind = "End" /\ tag = "Table" -> Top.tag = "TableBody"
      [] kind = "End" -> Top.tag = tag
      [] kind = "Text" -> InlineContext \/ Top.tag = "CodeBlock"
      [] kind \in {"Rule", "Html"} -> BlockContext
      [] OTHER -> InlineContext

\* The events of a kind, with their payloads.
Payloads(kind, tag) ==
    CASE kind = "Start" /\ tag = "Table" ->
             {[kind |-> kind, tag |-> tag, alignments |-> a] : a \in AlignmentLists}
      [] kind = "Start" /\ tag = "Heading" ->
             {[kind |-> kind, tag |-> tag, level |-> l, classes |-> c] :
                  l \in HeadingLevels, c \in HeadingClassSets}
      [] kind = "Start" /\ tag \in {"Link", "Image"} ->
             {[kind |-> kind, tag |-> tag, url |-> u] : u \in Urls}
      [] kind = "Start" /\ tag = "List" ->
             {[kind |-> kind, tag |-> tag, ordered |-> o] : o \in BOOLEAN}
      [] kind = "End" /\ tag = "List" ->
             {[kind |-> kind, tag |-> tag, ordered |-> Top.ordered]}
      [] kind = "Start" /\ tag = "CodeBlock" ->
             {[kind |-> kind, tag |-> tag, block |-> b] : b \in CodeBlockKinds}
      [] kind = "Text" -> {[kind |-> kind, tag |-> tag, text |-> t] : t \in Texts}
      [] kind = "Code" -> {[kind |-> kind, tag |-> tag, code |-> c] : c \in Codes}
      [] OTHER -> {[kind |-> kind, tag |-> tag]}

\* The events of a kind the parser may yield next, while the event loop runs.
Yieldable(kind, tag) ==
    IF pc # "translate" \/ panicked THEN {}
    ELSE IF parser = "text"
    THEN IF events # <<>> /\ Head(events).kind = kind /\ Head(events).tag = tag
         THEN {Head(events)} ELSE {}
    ELSE IF Grammar(kind, tag) /\ (kind = "End" \/ budget > 0)
    THEN Payloads(kind, tag) ELSE {}

\* The containers open after the event.
OpenAfter(ev) ==
    CASE ev.kind = "Start" /\ ev.tag = "Heading" ->
             Append(open, [Entry("Heading") EXCEPT !.level = ev.level,
                                                   !.classes = ev.classes])
      [] ev.kind = "Start" /\ ev.tag = "List" ->
             Append(open, [Entry("List") EXCEPT !.ordered = ev.ordered])
      [] ev.kind = "Start" /\ ev.tag \in {"Link", "Image"} ->
             Append(open, [Entry(ev.tag) EXCEPT !.url = ev.url])
      [] ev.kind = "Start" /\ ev.tag = "TableCell" ->
             Append(Append(Pop, [Top EXCEPT !.cells = @ + 1]), Entry("TableCell"))
      [] ev.kind = "Start" -> Append(open, Entry(ev.tag))
      [] ev.kind = "End" /\ ev.tag = "TableHead" ->
             Append(SubSeq(open, 1, Len(open) - 2), Entry("TableBody"))
      [] ev.kind = "End" -> Pop
      [] ev.kind = "Text" ->
             [i \in 1..Len(open) |-> [open[i] EXCEPT !.text = @ \o ev.text]]
      [] OTHER -> open

transFrame == <<orderVars, replVars, postVars, preVars, pipeVars>>

\* `for event in parser`: the parser yields the event.
Advance(ev) ==
    /\ IF parser = "text"
       THEN /\ events' = Tail(events)
            /\ UNCHANGED <<open, budget>>
       ELSE /\ open' = OpenAfter(ev)
            /\ budget' = IF ev.kind = "End" THEN budget ELSE budget - 1
            /\ UNCHANGED events
    /\ yielded' = <<ev.kind, ev.tag>>
    /\ UNCHANGED <<parser, transFrame>>

(***************************************************************************)
(* convert_markdown_to_latex: one action per arm of the match on events    *)
(***************************************************************************)

transButOutput ==
    <<inside_image, image_url, image_caption, codeblock_status, first_cell,
      is_add_heading_to_contents, heading_content_string, panicked>>

\* an arm that only appends to the output
Emit(str) ==
    /\ output' = output \o str
    /\ UNCHANGED transButOutput

\* The concatenation of the sequences of a sequence.
RECURSIVE Flatten(_)
Flatten(ss) == IF ss = <<>> THEN <<>> ELSE Head(ss) \o Flatten(Tail(ss))

\* The column type of one alignment; anything but left and right (center,
\* none) is the centered column.
ColumnType(align) ==
    CASE align = "Left" -> <<">", "{", "\\", "r", "a", "g", "g", "e", "d", "r",
                             "i", "g", "h", "t",
                             "\\", "a", "r", "r",
                             "a", "y", "b", "a",
                             "c", "k", "s", "l",
                             "a", "s", "h", "}",
                             "X">>
      [] align = "Right" -> <<">", "{", "\\", "r", "a", "g", "g", "e", "d",
                              "l", "e", "f", "t",
                              "\\", "a", "r", "r",
                              "a", "y", "b", "a",
                              "c", "k", "s", "l",
                              "a", "s", "h", "}",
                              "X">>
      [] OTHER -> <<">", "{", "\\", "c", "e", "n", "t", "e", "r", "i", "n",
                    "g", "\\", "a", "r", "r", "a", "y", "b",
                    "a", "c", "k", "s", "l", "a", "s", "h",
                    "}", "X">>

\* "|" before every column type, and a closing "|"
ColumnFormat(alignments) ==
    Flatten([i \in 1..Len(alignments) |-> <<"|">> \o ColumnType(alignments[i])])
        \o <<"|">>

S_begin_tabularx == <<"\\", "b", "e", "g", "i", "n", "{", "t", "a", "b", "u",
                      "l", "a", "r", "x", "}">>

StartTable ==
    \E ev \in Yieldable("Start", "Table") :
        /\ Advance(ev)
        /\ Emit(S_begin_tabularx \o <<"{", "\\", "t", "e", "x", "t", "w", "i",
                                      "d",
                                      "t",
                                      "h",
                                      "}",
                                      "{">>
                  \o ColumnFormat(ev.alignments) \o <<"}", " ", "\\", "h", "l",
                                                      "i",
                                                      "n",
                                                      "e",
                                                      "\n">>)

EndTable ==
    \E ev \in Yieldable("End", "Table") :
        /\ Advance(ev)
        /\ Emit(<<"\\", "e", "n", "d", "{", "t", "a", "b", "u", "l", "a", "r",
                  "x", "}", "\n", "\n">>)

\* _inside_header is written and never read
StartTableHead ==
    \E ev \in Yieldable("Start", "TableHead") :
        /\ Advance(ev)
        /\ first_cell' = TRUE
        /\ UNCHANGED <<output, inside_image, image_url, image_caption,
                       codeblock_status, is_add_heading_to_contents,
                       heading_content_string, panicked>>

S_row_end == <<" ", "\\", "\\", " ", "\\", "h", "l", "i", "n", "e", "\n">>

EndTableHead ==
    \E ev \in Yieldable("End", "TableHead") :
        /\ Advance(ev)
        /\ Emit(S_row_end)

\* a row start that leaves the flag as the row before left it
StartTableRowKeepsFlag ==
    \E ev \in Yieldable("Start", "TableRow") :
        /\ Advance(ev)
        /\ UNCHANGED transVars

StartTableRow ==
    \E ev \in Yieldable("Start", "TableRow") :
        /\ Advance(ev)
        /\ first_cell' = TRUE
        /\ UNCHANGED <<output, inside_image, image_url, image_caption,
                       codeblock_status, is_add_heading_to_contents,
                       heading_content_string, panicked>>

EndTableRow ==
    \E ev \in Yieldable("End", "TableRow") :
        /\ Advance(ev)
        /\ Emit(S_row_end)

S_cell_sep == <<" ", "&", " ">>

StartTableCell ==
    \E ev \in Yieldable("Start", "TableCell") :
        /\ Advance(ev)
        /\ output' = IF ~first_cell THEN output \o S_cell_sep ELSE output
        /\ first_cell' = FALSE
        /\ UNCHANGED <<inside_image, image_url, image_caption, codeblock_status,
                       is_add_heading_to_contents, heading_content_string, panicked>>

EndTableCell ==
    \E ev \in Yieldable("End", "TableCell") :
        /\ Advance(ev)
        /\ UNCHANGED transVars

\* a match on the level that has no arm for H5
BaseStringWithoutH5(level) ==
    CASE level = 1 -> <<"c", "h", "a", "p", "t", "e", "r">>
      [] level = 2 -> <<"s", "e", "c", "t", "i", "o", "n">>
      [] level = 3 -> <<"s", "u", "b", "s", "e", "c", "t", "i", "o", "n">>
      [] level = 4 -> <<"s", "u", "b", "s", "u", "b", "s", "e", "c", "t", "i",
                        "o", "n">>
      [] OTHER -> <<"t", "e", "x", "t", "b", "f">>

\* the sectioning command of a heading level (H1..H6 as 1..6)
BaseString(level) ==
    CASE level = 1 -> <<"c", "h", "a", "p", "t", "e", "r">>
      [] level = 2 -> <<"s", "e", "c", "t", "i", "o", "n">>
      [] level = 3 -> <<"s", "u", "b", "s", "e", "c", "t", "i", "o", "n">>
      [] level = 4 -> <<"s", "u", "b", "s", "u", "b", "s", "e", "c", "t", "i",
                        "o", "n">>
      [] level = 5 -> <<"p", "a", "r", "a", "g", "r", "a", "p", "h">>
      [] OTHER -> <<"t", "e", "x", "t", "b", "f">>

StartHeading ==
    \E ev \in Yieldable("Start", "Heading") :
        /\ Advance(ev)
        /\ output' = output \o <<"\\">> \o BaseString(ev.level)
                        \o (IF "unnumbered" \in ev.classes THEN <<"*">> ELSE <<>>)
                        \o <<"{">>
        /\ is_add_heading_to_contents' =
               IF "add-contents" \in ev.classes THEN TRUE
               ELSE is_add_heading_to_contents
        /\ UNCHANGED <<inside_image, image_url, image_caption, codeblock_status,
                       first_cell, heading_content_string, panicked>>

\* heading_content_string.as_ref().unwrap() panics on None, after "}\n" has
\* been pushed
EndHeading ==
    \E ev \in Yieldable("End", "Heading") :
        /\ Advance(ev)
        /\ IF is_add_heading_to_contents /\ ~heading_content_string.is_some
           THEN /\ output' = output \o <<"}", "\n">>
                /\ panicked' = TRUE
                /\ UNCHANGED <<inside_image, image_url, image_caption,
                               codeblock_status, first_cell,
                               is_add_heading_to_contents, heading_content_string>>
           ELSE /\ output' = output \o <<"}", "\n">>
                       \o (IF is_add_heading_to_contents
                           THEN <<"\\", "a", "d", "d", "c", "o", "n", "t", "e",
                                  "n", "t",
                                  "s", "l",
                                  "i", "n",
                                  "e", "{",
                                  "t", "o",
                                  "c", "}",
                                  "{", "c",
                                  "h", "a",
                                  "p", "t",
                                  "e", "r",
                                  "}", "{">>
                                    \o heading_content_string.value \o <<"}", "\n">>
                           ELSE <<>>)
                       \o <<"\n">>
                /\ is_add_heading_to_contents' = FALSE
                /\ heading_content_string' =
                       IF is_add_heading_to_contents THEN None
                       ELSE heading_content_string
                /\ UNCHANGED <<inside_image, image_url, image_caption,
                               codeblock_status, first_cell, panicked>>

\* _inside_paragraph is written and never read
StartParagraph ==
    \E ev \in Yieldable("Start", "Paragraph") :
        /\ Advance(ev)
        /\ UNCHANGED transVars

EndParagraph ==
    \E ev \in Yieldable("End", "Paragraph") :
        /\ Advance(ev)
        /\ Emit(<<"\n", "\n">>)

\* the three Text arms, in the order of the match
TextEvent ==
    \E ev \in Yieldable("Text", "-") :
        /\ Advance(ev)
        /\ IF inside_image
           THEN /\ image_caption' = image_caption \o ev.text
                /\ UNCHANGED <<output, inside_image, image_url, codeblock_status,
                               first_cell, is_add_heading_to_contents,
                               heading_content_string, panicked>>
           ELSE IF codeblock_status # KindNone
           THEN Emit(ev.text)
           ELSE LET replaced == apply_text_replacements(
                                    ev.text, IN_TEXT_REPLACEMENT_TABLE, in_order)
                IN /\ heading_content_string' =
                          IF is_add_heading_to_contents THEN Some(replaced)
                          ELSE heading_content_string
                   /\ output' = output \o replaced
                   /\ UNCHANGED <<inside_image, image_url, image_caption,
                                  codeblock_status, first_cell,
                                  is_add_heading_to_contents, panicked>>

StartEmphasis ==
    \E ev \in Yieldable("Start", "Emphasis") :
        /\ Advance(ev)
        /\ Emit(<<"\\", "t", "e", "x", "t", "i", "t", "{">>)

EndEmphasis ==
    \E ev \in Yieldable("End", "Emphasis") :
        /\ Advance(ev)
        /\ Emit(<<"}">>)

StartStrong ==
    \E ev \in Yieldable("Start", "Strong") :
        /\ Advance(ev)
        /\ Emit(<<"\\", "t", "e", "x", "t", "b", "f", "{">>)

EndStrong ==
    \E ev \in Yieldable("End", "Strong") :
        /\ Advance(ev)
        /\ Emit(<<"}">>)

StartLink ==
    \E ev \in Yieldable("Start", "Link") :
        /\ Advance(ev)
        /\ Emit(<<"\\", "h", "r", "e", "f", "{">> \o ev.url \o <<"}", "{">>)

EndLink ==
    \E ev \in Yieldable("End", "Link") :
        /\ Advance(ev)
        /\ Emit(<<"}">>)

StartImage ==
    \E ev \in Yieldable("Start", "Image") :
        /\ Advance(ev)
        /\ inside_image' = TRUE
        /\ image_url' = ev.url
        /\ UNCHANGED <<output, image_caption, codeblock_status, first_cell,
                       is_add_heading_to_contents, heading_content_string, panicked>>

EndImage ==
    \E ev \in Yieldable("End", "Image") :
        /\ Advance(ev)
        /\ output' = output \o <<"\\", "b", "e", "g", "i", "n", "{", "f", "i",
                                 "g", "u", "r",
                                 "e", "}", "[",
                                 "h", "t", "b",
                                 "p", "]", "\n">>
               \o <<"\\", "c", "e", "n", "t", "e", "r", "i", "n", "g", "\n",
                    "\\", "i", "n", "c", "l", "u", "d", "e",
                    "g", "r", "a", "p", "h", "i", "c", "s",
                    "[", "w", "i", "d", "t", "h", "=", "0",
                    ".", "8", "\\", "t", "e", "x", "t", "w",
                    "i", "d", "t", "h", "]", "{">>
               \o image_url \o <<"}", "\n">>
               \o <<"\\", "c", "a", "p", "t", "i", "o", "n", "{">> \o image_caption \o <<"}", "\n">>
               \o <<"\\", "l", "a", "b", "e", "l", "{", "f", "i", "g", ":">> \o image_url \o <<"}", "\n">>
               \o <<"\\", "e", "n", "d", "{", "f", "i", "g", "u", "r", "e",
                    "}", "\n">>
        /\ inside_image' = FALSE
        /\ image_url' = <<>>
        /\ image_caption' = <<>>
        /\ UNCHANGED <<codeblock_status, first_cell, is_add_heading_to_contents,
                       heading_content_string, panicked>>

\* List(Some(_)) is the ordered list; _in_ordered_list and
\* _in_unordered_list are written and never read
StartList ==
    \E ev \in Yieldable("Start", "List") :
        /\ Advance(ev)
        /\ Emit(IF ev.ordered THEN <<"\\", "b", "e", "g", "i", "n", "{", "e",
                                     "n",
                                     "u",
                                     "m",
                                     "e",
                                     "r",
                                     "a",
                                     "t",
                                     "e",
                                     "}",
                                     "\n">>
                ELSE <<"\\", "b", "e", "g", "i", "n", "{", "i", "t", "e", "m",
                       "i", "z", "e", "}", "\n">>)

EndList ==
    \E ev \in Yieldable("End", "List") :
        /\ Advance(ev)
        /\ Emit(IF ev.ordered THEN <<"\\", "e", "n", "d", "{", "e", "n", "u",
                                     "m",
                                     "e",
                                     "r",
                                     "a",
                                     "t",
                                     "e",
                                     "}",
                                     "\n">>
                ELSE <<"\\", "e", "n", "d", "{", "i", "t", "e", "m", "i", "z",
                       "e", "}", "\n">>)

StartItem ==
    \E ev \in Yieldable("Start", "Item") :
        /\ Advance(ev)
        /\ Emit(<<"\\", "i", "t", "e", "m", " ">>)

EndItem ==
    \E ev \in Yieldable("End", "Item") :
        /\ Advance(ev)
        /\ Emit(<<"\n">>)

\* str::split(" "): the pieces between single spaces, empty ones included
RECURSIVE SplitSpaces(_)
SplitSpaces(s) ==
    LET spaces == {k \in 1..Len(s) : s[k] = " "}
    IN IF spaces = {} THEN <<s>>
       ELSE <<SubSeq(s, 1, Min(spaces) - 1)>> \o SplitSpaces(Drop(s, Min(spaces)))

\* .filter(|it| !it.is_empty())
Tags(lang) == SelectSeq(SplitSpaces(lang), LAMBDA it : it # <<>>)

S_block_equation_open == <<"b", "l", "o", "c", "k", "_", "e", "q", "u", "a",
                           "t", "i", "o", "n", "{">>

\* The places in tag where the regex block_equation\{(.*?)\} matches: the
\* literal block_equation{ with a } somewhere after it.
EquationMatches(tag) ==
    {k \in 1..Len(tag) :
        /\ StartsWith(Drop(tag, k - 1), S_block_equation_open)
        /\ \E m \in (k + Len(S_block_equation_open))..Len(tag) : tag[m] = "}"}

\* caps[1] of the first match: the lazy group ends at the first }
EquationName(tag) ==
    LET from == Min(EquationMatches(tag)) + Len(S_block_equation_open)
        to == Min({m \in from..Len(tag) : tag[m] = "}"})
    IN SubSeq(tag, from, to - 1)

S_begin_equation == <<"\\", "b", "e", "g", "i", "n", "{", "e", "q", "u", "a",
                      "t", "i", "o", "n", "}", "\n">>

S_begin_lstlisting == <<"\\", "b", "e", "g", "i", "n", "{", "l", "s", "t", "l",
                        "i", "s", "t", "i", "n", "g",
                        "}", "\n">>

\* handle_code_block_start: the kind it returns and what it pushes to output
handle_code_block_start(kind) ==
    IF kind.fenced
    THEN LET tags == Tags(kind.info)
             matching == {i \in 1..Len(tags) : EquationMatches(tags[i]) # {}}
         IN IF matching # {}
            THEN LET name == EquationName(tags[Min(matching)])
                 IN [status |-> KindEquation,
                     pushed |-> S_begin_equation
                                  \o (IF name # <<>>
                                      THEN <<"\\", "l", "a", "b", "e", "l",
                                             "{",
                                             "e",
                                             "q",
                                             ":">> \o name \o <<"}", "\n">>
                                      ELSE <<>>)]
            ELSE IF (\E i \in 1..Len(tags) : tags[i] = <<"l", "a", "t", "e",
                                                         "x">>)
                    /\ (\E i \in 1..Len(tags) : tags[i] = <<"r", "a", "w">>)
            THEN [status |-> KindRawLatex, pushed |-> <<>>]
            ELSE [status |-> KindCode(Some(kind.info)), pushed |-> S_begin_lstlisting]
    ELSE [status |-> KindCode(None), pushed |-> <<>>]

StartCodeBlock ==
    \E ev \in Yieldable("Start", "CodeBlock") :
        /\ Advance(ev)
        /\ codeblock_status' = handle_code_block_start(ev.block).status
        /\ output' = output \o handle_code_block_start(ev.block).pushed
        /\ UNCHANGED <<inside_image, image_url, image_caption, first_cell,
                       is_add_heading_to_contents, heading_content_string, panicked>>

S_end_lstlisting == <<"\\", "e", "n", "d", "{", "l", "s", "t", "l", "i", "s",
                      "t", "i", "n", "g", "}", "\n", "\n">>

S_end_equation == <<"\\", "e", "n", "d", "{", "e", "q", "u", "a", "t", "i",
                    "o", "n", "}", "\n", "\n">>

\* a code-block end that emits the closer and leaves the status as it is
EndCodeBlockKeepsStatus ==
    \E ev \in Yieldable("End", "CodeBlock") :
        /\ Advance(ev)
        /\ output' = output
               \o (CASE codeblock_status.kind = "Code" -> S_end_lstlisting
                     [] codeblock_status.kind = "Equation" -> S_end_equation
                     [] OTHER -> <<>>)
        /\ UNCHANGED transButOutput

EndCodeBlock ==
    \E ev \in Yieldable("End", "CodeBlock") :
        /\ Advance(ev)
        /\ output' = output
               \o (CASE codeblock_status.kind = "Code" -> S_end_lstlisting
                     [] codeblock_status.kind = "Equation" -> S_end_equation
                     [] OTHER -> <<>>)
        /\ codeblock_status' = KindNone
        /\ UNCHANGED <<inside_image, image_url, image_caption, first_cell,
                       is_add_heading_to_contents, heading_content_string, panicked>>

InlineCode ==
    \E ev \in Yieldable("Code", "-") :
        /\ Advance(ev)
        /\ Emit(<<"\\", "t", "e", "x", "t", "t", "t", "{">>
                  \o apply_text_replacements(ev.code, IN_TEXT_REPLACEMENT_TABLE, in_order)
                  \o <<"}">>)

Rule ==
    \E ev \in Yieldable("Rule", "-") :
        /\ Advance(ev)
        /\ Emit(<<"\\", "h", "r", "u", "l", "e", "f", "i", "l", "l", "\n">>)

SoftBreak ==
    \E ev \in Yieldable("SoftBreak", "-") :
        /\ Advance(ev)
        /\ Emit(<<"\n">>)

HardBreak ==
    \E ev \in Yieldable("HardBreak", "-") :
        /\ Advance(ev)
        /\ Emit(<<"\\", "\\", "\n">>)

\* The events no arm of the match lists: a block quote or a strikethrough
\* span starts or ends, raw HTML, a footnote reference, a task-list marker.
UnlistedEvents ==
    { <<"Start", "BlockQuote">>, <<"End", "BlockQuote">>,
      <<"Start", "Strikethrough">>, <<"End", "Strikethrough">>,
      <<"Html", "-">>, <<"FootnoteReference", "-">>, <<"TaskListMarker", "-">> }

\* a catch-all arm that emits a line feed
IgnoredWithLineFeed ==
    \E unlisted \in UnlistedEvents :
        \E ev \in Yieldable(unlisted[1], unlisted[2]) :
            /\ Advance(ev)
            /\ Emit(<<"\n">>)

\* the catch-all arm: _ => {}
Ignored ==
    \E unlisted \in UnlistedEvents :
        \E ev \in Yieldable(unlisted[1], unlisted[2]) :
            /\ Advance(ev)
            /\ UNCHANGED transVars


(***************************************************************************)
(* postprocess                                                             *)
(***************************************************************************)

\* All concatenations of at most n pieces.
RECURSIVE Concats(_, _)
Concats(pieces, n) ==
    IF n = 0 THEN {<<>>}
    ELSE LET shorter == Concats(pieces, n - 1)
         IN shorter \cup {s \o q : s \in shorter, q \in pieces}

S_cite_esc == <<"\\", "c", "i", "t", "e", "\\", "{">>
S_cite == <<"\\", "c", "i", "t", "e", "{">>
S_ref_esc == <<"\\", "r", "e", "f", "\\", "{">>
S_ref == <<"\\", "r", "e", "f", "{">>
S_close_esc == <<"\\", "}">>

\* Regex::replace_all of <opener>(.*?)\\\} by <clean>$1}: at the leftmost
\* opener, the lazy group runs to the first \} with no line break before it.
RECURSIVE RepairEscaped(_, _, _)
RepairEscaped(s, opener, clean) ==
    IF s = <<>> THEN <<>>
    ELSE IF StartsWith(s, opener)
    THEN LET rest == Drop(s, Len(opener))
             ends == {k \in 1..(Len(rest) - 1) :
                         /\ SubSeq(rest, k, k + 1) = S_close_esc
                         /\ \A m \in 1..(k - 1) : rest[m] # "\n"}
         IN IF ends = {} THEN <<Head(s)>> \o RepairEscaped(Tail(s), opener, clean)
            ELSE clean \o SubSeq(rest, 1, Min(ends) - 1) \o <<"}">>
                       \o RepairEscaped(Drop(rest, Min(ends) + 1), opener, clean)
    ELSE <<Head(s)>> \o RepairEscaped(Tail(s), opener, clean)

\* inversedly_replace with the regex \$([^\$\n]+)\$ and the formatter
\* "${}$": a dollar, one or more characters that are neither a dollar nor a
\* line break, a dollar; the group has the inverse in-text replacement applied.
RECURSIVE InverseInMath(_, _)
InverseInMath(s, order) ==
    IF s = <<>> THEN <<>>
    ELSE IF Head(s) = "$"
    THEN LET rest == Tail(s)
             stops == {k \in 1..Len(rest) : rest[k] = "$" \/ rest[k] = "\n"}
         IN IF stops # {} /\ Min(stops) > 1 /\ rest[Min(stops)] = "$"
            THEN <<"$">>
                 \o apply_text_replacements_inversedly(
                        SubSeq(rest, 1, Min(stops) - 1), IN_TEXT_REPLACEMENT_TABLE, order)
                 \o <<"$">> \o InverseInMath(Drop(rest, Min(stops)), order)
            ELSE <<"$">> \o InverseInMath(rest, order)
    ELSE <<Head(s)>> \o InverseInMath(Tail(s), order)

\* inversedly_replace with the regex \\ref\{([^}]+)\} and the formatter
\* "\ref{{{}}}": \ref{, one or more characters other than }, a }.
RECURSIVE InverseInRef(_, _)
InverseInRef(s, order) ==
    IF s = <<>> THEN <<>>
    ELSE IF StartsWith(s, S_ref)
    THEN LET rest == Drop(s, Len(S_ref))
             stops == {k \in 1..Len(rest) : rest[k] = "}"}
         IN IF stops # {} /\ Min(stops) > 1
            THEN S_ref
                 \o apply_text_replacements_inversedly(
                        SubSeq(rest, 1, Min(stops) - 1), IN_TEXT_REPLACEMENT_TABLE, order)
                 \o <<"}">> \o InverseInRef(Drop(rest, Min(stops)), order)
            ELSE <<Head(s)>> \o InverseInRef(Tail(s), order)
    ELSE <<Head(s)>> \o InverseInRef(Tail(s), order)

postprocess(input, order) ==
    LET cited == RepairEscaped(input, S_cite_esc, S_cite)
        reffed == RepairEscaped(cited, S_ref_esc, S_ref)
        math == InverseInMath(reffed, order)
    IN InverseInRef(math, order)

(***************************************************************************)
(* postprocess on its own: applied to a text, then to its own result       *)
(***************************************************************************)

PostPieces ==
    { S_cite_esc, S_ref_esc, S_ref, S_close_esc, <<"}">>, <<"$">>, <<"\\">>,
      <<"\\", "_">>, <<"a">>, <<"\n">> }

\* The orders of the in-text table the larger specifications draw from (the
\* replacement engine's own specification draws from all of them).
InTextOrderSamples ==
    { SourceOrder(IN_TEXT_REPLACEMENT_TABLE),
      [i \in 1..Len(IN_TEXT_REPLACEMENT_TABLE) |-> Len(IN_TEXT_REPLACEMENT_TABLE) + 1 - i] }

InitPost ==
    /\ TransStart
    /\ EnvIdle
    /\ PipeIdle
    /\ ReplIdle
    /\ PreIdle
    /\ pre_order = SourceOrder(PRE_REPLACEMENT_TABLE)
    /\ in_order \in InTextOrderSamples
    /\ p_text \in Concats(PostPieces, MaxPostPieces)
    /\ p_once = <<>>
    /\ p_twice = <<>>
    /\ p_pc = "start"

PostOnce ==
    /\ p_pc = "start"
    /\ p_once' = postprocess(p_text, in_order)
    /\ p_pc' = "once"
    /\ UNCHANGED <<postFrame, p_text, p_twice>>

PostTwice ==
    /\ p_pc = "once"
    /\ p_twice' = postprocess(p_once, in_order)
    /\ p_pc' = "twice"
    /\ UNCHANGED <<postFrame, p_text, p_once>>

NextPost == PostOnce \/ PostTwice

SpecPost == InitPost /\ [][NextPost]_vars

\* C6: postprocess is idempotent: a second pass over the result of the first
\* changes nothing.
C6_Idempotent == p_pc = "twice" => p_twice = p_once

(***************************************************************************)
(* The replacement engine on its own: one table, one text, one order       *)
(***************************************************************************)

PreAlphabet == {"[", BT, "*", "]"}

InTextAlphabet == {"&", "_", "{", "\\"}

TableOf(id) == IF id = "pre" THEN PRE_REPLACEMENT_TABLE ELSE IN_TEXT_REPLACEMENT_TABLE

OrderOf(id) == IF id = "pre" THEN pre_order ELSE in_order

InitRepl ==
    /\ TransStart
    /\ EnvIdle
    /\ PipeIdle
    /\ PostIdle
    /\ PreIdle
    /\ r_pc = "start"
    /\ r_out = <<>>
    /\ r_back = <<>>
    /\ \/ /\ r_table = "pre"
          /\ pre_order \in PreOrders
          /\ in_order = SourceOrder(IN_TEXT_REPLACEMENT_TABLE)
          /\ r_text \in SeqsUpTo(PreAlphabet, MaxReplLen)
       \/ /\ r_table = "intext"
          /\ in_order \in InTextOrders
          /\ pre_order = SourceOrder(PRE_REPLACEMENT_TABLE)
          /\ r_text \in SeqsUpTo(InTextAlphabet, MaxReplLen)

ReplForward ==
    /\ r_pc = "start"
    /\ r_out' = apply_text_replacements(r_text, TableOf(r_table), OrderOf(r_table))
    /\ r_pc' = "replaced"
    /\ UNCHANGED <<replFrame, r_table, r_text, r_back>>

ReplInverse ==
    /\ r_pc = "replaced"
    /\ r_back' = apply_text_replacements_inversedly(r_out, TableOf(r_table), OrderOf(r_table))
    /\ r_pc' = "restored"
    /\ UNCHANGED <<replFrame, r_table, r_text, r_out>>

NextRepl == ReplForward \/ ReplInverse

SpecRepl == InitRepl /\ [][NextRepl]_vars

\* C7: apply_text_replacements gives the same result in whatever order the
\* table's entries are iterated: the result under the order the map yields
\* equals the result under the order the source lists the entries in.
C7_OrderIndependent ==
    r_pc # "start" =>
        r_out = apply_text_replacements(r_text, TableOf(r_table),
                                        SourceOrder(TableOf(r_table)))


(***************************************************************************)
(* The translator under a free-running parser                              *)
(***************************************************************************)

\* Bounds on the events the parser starts.
MaxHeadingEvents == 3
MaxTableEvents == 10

InitTranslator(n) ==
    /\ ReplIdle
    /\ PostIdle
    /\ PreIdle
    /\ TransStart
    /\ pre_order = SourceOrder(PRE_REPLACEMENT_TABLE)
    /\ in_order \in InTextOrderSamples
    /\ parser = "free"
    /\ open = <<>>
    /\ budget = n
    /\ yielded = <<"-", "-">>
    /\ events = <<>>
    /\ pc = "translate"
    /\ latex = <<>>
    /\ run = 1
    /\ first_latex = <<>>

\* The translator on headings and their inline content.
InitHeading == InitTranslator(MaxHeadingEvents)

NextHeading ==
    \/ StartHeading
    \/ EndHeading
    \/ TextEvent
    \/ InlineCode
    \/ StartEmphasis
    \/ EndEmphasis
    \/ StartImage
    \/ EndImage

SpecHeading == InitHeading /\ [][NextHeading]_vars

\* The translator on tables alone.
InitTable == InitTranslator(MaxTableEvents)

NextTable ==
    \/ StartTable
    \/ EndTable
    \/ StartTableHead
    \/ EndTableHead
    \/ StartTableRow
    \/ EndTableRow
    \/ StartTableCell
    \/ EndTableCell
    \/ TextEvent

SpecTable == InitTable /\ [][NextTable]_vars

\* The translator on code blocks, paragraphs and the events no arm lists.
MaxCodeEvents == 4

InitCode == InitTranslator(MaxCodeEvents)

NextCode ==
    \/ StartCodeBlock
    \/ EndCodeBlock
    \/ StartParagraph
    \/ EndParagraph
    \/ TextEvent
    \/ Ignored

SpecCode == InitCode /\ [][NextCode]_vars

(***************************************************************************)
(* The parser on the preprocessed text.  Of the Markdown the parser reads, *)
(* this covers fenced code blocks and paragraphs of plain lines; anything  *)
(* else ends the event sequence with an event of kind "Unmodelled", which  *)
(* no arm takes, so that a run on such a text does not get past it.  The   *)
(* parser may yield the text of a line in several Text events; their       *)
(* concatenation is what is given here as one event.                       *)
(***************************************************************************)

PlainLetters == {"a", "b", "c", "e", "f", "i", "k", "r", "t", "x"}

\* Whether the underscores at k and m of the line delimit an emphasised
\* span: letters between them, and punctuation (or an end of the line) on
\* the outer side of each, so that the first can open and the second can
\* close emphasis.
Emphasised(line, k, m) ==
    /\ k + 1 < m
    /\ line[k] = "_"
    /\ line[m] = "_"
    /\ \A i \in (k + 1)..(m - 1) : line[i] \in PlainLetters
    /\ IF k = 1 THEN TRUE ELSE line[k - 1] \in {"[", "]", "{", "}"}
    /\ IF m = Len(line) THEN TRUE ELSE line[m + 1] \in {"[", "]", "{", "}"}

\* A line of paragraph text this covers: of letters, brackets and braces, a
\* backslash before a letter (no escape), an underscore between two letters
\* (no emphasis), and underscores that delimit an emphasised span.
Plain(line) ==
    /\ line # <<>>
    /\ \A i \in 1..Len(line) :
          \/ line[i] \in PlainLetters \cup {"[", "]", "{", "}"}
          \/ \E m \in 1..Len(line) : Emphasised(line, i, m) \/ Emphasised(line, m, i)
          \/ /\ line[i] = "\\"
             /\ i < Len(line)
             /\ line[i + 1] \in PlainLetters
          \/ /\ line[i] = "_"
             /\ 1 < i
             /\ i < Len(line)
             /\ line[i - 1] \in PlainLetters
             /\ line[i + 1] \in PlainLetters

Event(kind, tag) == [kind |-> kind, tag |-> tag]

\* The inline events of a plain line: its text, and its emphasised spans.
RECURSIVE Inline(_)
Inline(line) ==
    LET spans == {km \in (1..Len(line)) \X (1..Len(line)) :
                     Emphasised(line, km[1], km[2])}
    IN IF line = <<>> THEN <<>>
       ELSE IF spans = {}
       THEN <<[kind |-> "Text", tag |-> "-", text |-> line]>>
       ELSE LET k == Min({km[1] : km \in spans})
                m == Min({km[2] : km \in {sp \in spans : sp[1] = k}})
            IN (IF k = 1 THEN <<>>
                ELSE <<[kind |-> "Text", tag |-> "-",
                        text |-> SubSeq(line, 1, k - 1)]>>)
                   \o <<Event("Start", "Emphasis"),
                        [kind |-> "Text", tag |-> "-",
                         text |-> SubSeq(line, k + 1, m - 1)],
                        Event("End", "Emphasis")>>
                   \o Inline(Drop(line, m))

\* The events of the lines ls, read in the block `block` ("document", or
\* inside a "paragraph" or a "code" block).
RECURSIVE ParseLines(_, _)
ParseLines(ls, block) ==
    IF ls = <<>>
    THEN CASE block = "code" -> <<Event("End", "CodeBlock")>>
           [] block = "paragraph" -> <<Event("End", "Paragraph")>>
           [] OTHER -> <<>>
    ELSE LET line == Head(ls)
         IN CASE block = "code" /\ TrimEnd(line) = S_fence ->
                     <<Event("End", "CodeBlock")>> \o ParseLines(Tail(ls), "document")
              [] block = "code" ->
                     <<[kind |-> "Text", tag |-> "-", text |-> line \o <<"\n">>]>>
                         \o ParseLines(Tail(ls), "code")
              [] block = "paragraph" /\ (Trim(line) = <<>> \/ StartsWith(line, S_fence)) ->
                     <<Event("End", "Paragraph")>> \o ParseLines(ls, "document")
              [] block = "paragraph" /\ Plain(line) ->
                     <<Event("SoftBreak", "-")>> \o Inline(line)
                         \o ParseLines(Tail(ls), "paragraph")
              [] block = "document" /\ Trim(line) = <<>> ->
                     ParseLines(Tail(ls), "document")
              [] block = "document" /\ StartsWith(line, S_fence)
                     /\ BT \notin {line[i] : i \in 4..Len(line)} ->
                     <<[kind |-> "Start", tag |-> "CodeBlock",
                        block |-> [fenced |-> TRUE, info |-> Trim(Drop(line, 3))]]>>
                         \o ParseLines(Tail(ls), "code")
              [] block = "document" /\ Plain(line) ->
                     <<Event("Start", "Paragraph")>> \o Inline(line)
                         \o ParseLines(Tail(ls), "paragraph")
              [] OTHER -> <<Event("Unmodelled", "-")>>

Parse(text) == ParseLines(Lines(text), "document")

(***************************************************************************)
(* The whole program: preprocess, the parser on its result, the event      *)
(* loop, postprocess; and the program run again on the same input, in a    *)
(* new process, where the HashMaps have a new iteration order.             *)
(***************************************************************************)

\* The runs of the program on one input.
MaxRuns == 2

CiteKeys == { <<"k">>, <<"a", "_", "b">> }

RawBodies == { <<"x">>, <<"$", "a", "\\", "_", "b", "$">>,
               <<"\\", "c", "i", "t", "e", "\\", "{", "x", "\\", "}">> }

CiteLine(key) == <<"[", BT>> \o key \o <<BT, "]">>

RefLabels == { <<"k">>, <<"a", "_", "b">>, <<"_", "a", "_">> }

RefLine(lbl) == <<"[", "*">> \o lbl \o <<"*", "]">>

RawBlock(body) == <<S_raw_opener, body, S_fence>>

EquationBlock(lbl, body) ==
    << S_dollars \o (IF lbl = <<>> THEN <<>> ELSE <<" ">> \o lbl), body, S_dollars >>

\* Openers of a fenced block whose fence-info holds the tokens latex and raw.
RawOpeners ==
    { S_raw_opener,
      <<BT, BT, BT, "r", "a", "w", " ", "l", "a", "t", "e", "x">>,
      <<BT, BT, BT, " ", "l", "a", "t", "e", "x", " ", " ", "r", "a", "w">> }

\* The input documents, as their lines.
PipeDocs ==
    {<<CiteLine(key)>> : key \in CiteKeys}
        \cup {<<RefLine(lbl)>> : lbl \in RefLabels}
        \cup {RawBlock(body) : body \in RawBodies}
        \cup {<<opener, CiteLine(<<"k">>), S_fence>> : opener \in RawOpeners}
        \cup {EquationBlock(lbl, <<"x">>) : lbl \in {<<>>, <<"L">>}}
        \cup { << <<"[", BT, "]">> >>, << <<"x">>, <<"x">> >> }

InitPipe ==
    /\ ReplIdle
    /\ PostIdle
    /\ TransStart
    /\ pre_order \in PreOrders
    /\ in_order \in InTextOrderSamples
    /\ markdown \in {JoinLines(doc) : doc \in PipeDocs}
    /\ lines = <<>>
    /\ pre_output = <<>>
    /\ label = <<>>
    /\ content = <<>>
    /\ pre_pc = "start"
    /\ parser = "text"
    /\ open = <<>>
    /\ budget = 0
    /\ events = <<>>
    /\ yielded = <<"-", "-">>
    /\ pc = "preprocess"
    /\ latex = <<>>
    /\ run = 1
    /\ first_latex = <<>>

\* MdParser::new_ext(&preprocessed, Options::all()), once preprocess has
\* returned
NewParser ==
    /\ pc = "preprocess"
    /\ pre_pc = "done"
    /\ events' = Parse(pre_output)
    /\ pc' = "translate"
    /\ UNCHANGED <<orderVars, replVars, postVars, preVars, transVars, parser, open,
                   budget, yielded, latex, run, first_latex>>

\* the parser is exhausted: postprocess(&mut output), and the result is
\* returned
Return ==
    /\ pc = "translate"
    /\ parser = "text"
    /\ events = <<>>
    /\ ~panicked
    /\ latex' = postprocess(output, in_order)
    /\ pc' = "returned"
    /\ UNCHANGED <<orderVars, replVars, postVars, preVars, transVars, envVars, run,
                   first_latex>>

\* main is run again on the same file: the tables are built anew, with the
\* iteration order of a new process
RunAgain ==
    /\ pc = "returned"
    /\ run < MaxRuns
    /\ run' = run + 1
    /\ first_latex' = IF run = 1 THEN latex ELSE first_latex
    /\ pre_order' \in PreOrders
    /\ in_order' \in InTextOrderSamples
    /\ pc' = "preprocess"
    /\ latex' = <<>>
    /\ lines' = <<>>
    /\ pre_output' = <<>>
    /\ label' = <<>>
    /\ content' = <<>>
    /\ pre_pc' = "start"
    /\ output' = <<>>
    /\ inside_image' = FALSE
    /\ image_url' = <<>>
    /\ image_caption' = <<>>
    /\ codeblock_status' = KindNone
    /\ first_cell' = TRUE
    /\ is_add_heading_to_contents' = FALSE
    /\ heading_content_string' = None
    /\ UNCHANGED <<replVars, postVars, markdown, panicked, envVars>>

NextPipe ==
    \/ PreStart
    \/ PreOpenEquation
    \/ PreEquationLine
    \/ PreCloseEquation
    \/ PreOpenRaw
    \/ PreRawLine
    \/ PreRawEnd
    \/ PreOrdinaryLine
    \/ PreReturn
    \/ NewParser
    \/ StartParagraph
    \/ EndParagraph
    \/ TextEvent
    \/ StartEmphasis
    \/ EndEmphasis
    \/ SoftBreak
    \/ StartCodeBlock
    \/ EndCodeBlock
    \/ Return
    \/ RunAgain

SpecPipe == InitPipe /\ [][NextPipe]_vars

(***************************************************************************)
(* Properties of the translator, of preprocess and of the whole program    *)
(***************************************************************************)

\* Whether s ends with p.
EndsWith(s, p) == Len(p) <= Len(s) /\ SubSeq(s, Len(s) - Len(p) + 1, Len(s)) = p

\* The number of (non-overlapping) occurrences of p in s.
RECURSIVE Count(_, _)
Count(s, p) ==
    IF Len(s) < Len(p) THEN 0
    ELSE IF StartsWith(s, p) THEN 1 + Count(Drop(s, Len(p)), p)
    ELSE Count(Tail(s), p)

\* s after the last occurrence of p (s itself when there is none).
RECURSIVE AfterLast(_, _)
AfterLast(s, p) ==
    LET places == {k \in 1..Len(s) : StartsWith(Drop(s, k - 1), p)}
    IN IF places = {} THEN s ELSE AfterLast(Drop(s, Min(places) + Len(p) - 1), p)

\* C1: the translation pass is total: whatever events the parser yields,
\* the event loop never aborts.
C1_NeverPanics == ~panicked

\* C2: once preprocess has returned, the lines "$$ L", B, "$$" have become a
\* fenced block whose fence-info is block_equation{L}, with the body B.
C2_EquationFenceInfo ==
    \A body \in {<<"x">>, <<"[", BT, "k", BT, "]">>} :
        (pre_pc = "done"
            /\ markdown = JoinLines(<< <<"$", "$", " ", "L">>, body, S_dollars >>))
        => pre_output = S_fence \o <<" ", "b", "l", "o", "c", "k", "_", "e",
                                     "q",
                                     "u",
                                     "a",
                                     "t",
                                     "i",
                                     "o",
                                     "n",
                                     "{",
                                     "L",
                                     "}",
                                     "\n">>
                            \o body \o <<"\n">> \o S_fence \o <<"\n">>

\* C3: when the program has returned on a document that is one raw-LaTeX
\* block, its result is the body of the block, byte for byte, and nothing
\* else.
C3_RawBodyVerbatim ==
    \A body \in RawBodies :
        (pc = "returned" /\ markdown = JoinLines(RawBlock(body)))
        => latex = body \o <<"\n">>

\* C5: when the program has returned on a paragraph that is the shorthand
\* for a citation of the key K, its result is \cite{K} and the end of the
\* paragraph.
C5_CitationShorthand ==
    \A key \in CiteKeys :
        (pc = "returned" /\ markdown = JoinLines(<<CiteLine(key)>>))
        => latex = <<"\\", "c", "i", "t", "e", "{">> \o key \o <<"}", "\n", "\n">>

\* C8: a later run of the program on the same input returns what the first
\* run returned.
C8_Deterministic == (pc = "returned" /\ run > 1) => latex = first_latex

S_hline == <<"\\", "h", "l", "i", "n", "e", "\n">>

\* The row of the table the parser is in (its head counts as a row), and
\* what the translator has emitted for it: the output after the last \hline.
RowEntries == {i \in 1..Len(open) : open[i].tag \in {"TableHead", "TableRow"}}

InsideRow == RowEntries # {}

CellsOfRow == open[CHOOSE i \in RowEntries : \A j \in RowEntries : j <= i].cells

RowText == AfterLast(output, S_hline)

\* C9: in every head and every row that has k >= 1 cells so far the
\* translator has emitted exactly k-1 column separators (so none for the
\* first cell); and when a head or a row has just ended, the output ends
\* with the row terminator and \hline.
C9_TableRows ==
    /\ InsideRow =>
          Count(RowText, S_cell_sep) = (IF CellsOfRow = 0 THEN 0 ELSE CellsOfRow - 1)
    /\ Top.tag = "TableBody" => EndsWith(output, S_row_end)

\* a data row of two cells in the second table of a document
C9_Witness ==
    /\ Top.tag = "TableRow"
    /\ Top.cells = 2
    /\ Count(output, S_begin_tabularx) = 2

\* The command the claim names for each heading level.
HeadingCommand(level) ==
    CASE level = 1 -> <<"c", "h", "a", "p", "t", "e", "r">>
      [] level = 2 -> <<"s", "e", "c", "t", "i", "o", "n">>
      [] level = 3 -> <<"s", "u", "b", "s", "e", "c", "t", "i", "o", "n">>
      [] level = 4 -> <<"s", "u", "b", "s", "u", "b", "s", "e", "c", "t", "i",
                        "o", "n">>
      [] level = 5 -> <<"p", "a", "r", "a", "g", "r", "a", "p", "h">>
      [] level = 6 -> <<"t", "e", "x", "t", "b", "f">>

\* C10: a heading start emits \<command of the level>, a * after it for the
\* class unnumbered, and the opening brace; a heading end emits the closing
\* brace and a line feed first.
C10_HeadingCommand ==
    [][/\ (open' # <<>> /\ Len(open') = Len(open) + 1
              /\ open'[Len(open')].tag = "Heading")
          => output' = output \o <<"\\">>
                 \o HeadingCommand(open'[Len(open')].level)
                 \o (IF "unnumbered" \in open'[Len(open')].classes
                     THEN <<"*">> ELSE <<>>)
                 \o <<"{">>
       /\ (Top.tag = "Heading" /\ open' = Pop)
          => StartsWith(output', output \o <<"}", "\n">>)]_vars

\* a level-2 heading with the text T has ended: \section{T} and a line feed
C10_Witness ==
    /\ open = <<>>
    /\ output = <<"\\", "s", "e", "c", "t", "i", "o", "n", "{", "T", "}", "\n",
                  "\n">>

\* The figure environment of an image with the given URL and caption.
Figure(url, caption) ==
    <<"\\", "b", "e", "g", "i", "n", "{", "f", "i", "g", "u", "r", "e", "}",
      "[", "h", "t", "b", "p", "]", "\n", "\\", "c", "e", "n", "t", "e",
      "r", "i", "n", "g", "\n", "\\", "i", "n", "c", "l", "u", "d", "e",
      "g", "r", "a", "p", "h", "i", "c", "s", "[", "w", "i", "d", "t", "h",
      "=", "0", ".", "8", "\\", "t", "e", "x", "t", "w", "i", "d", "t",
      "h", "]", "{">>
        \o url \o <<"}", "\n">>
        \o <<"\\", "c", "a", "p", "t", "i", "o", "n", "{">> \o caption \o <<"}", "\n">>
        \o <<"\\", "l", "a", "b", "e", "l", "{", "f", "i", "g", ":">> \o url \o <<"}", "\n">>
        \o <<"\\", "e", "n", "d", "{", "f", "i", "g", "u", "r", "e", "}", "\n">>

\* C11: the end of an image emits one figure environment with the URL of
\* that image, with the Text events yielded between its start and its end as
\* the caption, and with a label of the URL; and it clears the image state.
C11_ImageFigure ==
    [][(yielded' = <<"End", "Image">> /\ open # <<>> /\ open' = Pop)
       => /\ output' = output \o Figure(Top.url, Top.text)
          /\ inside_image' = FALSE
          /\ image_url' = <<>>
          /\ image_caption' = <<>>]_vars

\* C16: the end of a heading with the class add-contents emits, after the
\* closing brace, one table-of-contents entry whose text is the
\* replacement-applied text of all Text events of the heading, and clears
\* the state of the entry; the end of a heading without the class emits no
\* entry.  (A heading end at which the program aborts is left aside.)
C16_TocEntry ==
    [][(yielded' = <<"End", "Heading">> /\ open # <<>> /\ open' = Pop /\ ~panicked')
       => IF "add-contents" \in Top.classes
          THEN /\ output' = output \o <<"}", "\n">>
                      \o <<"\\", "a", "d", "d", "c", "o", "n", "t", "e", "n",
                           "t", "s", "l", "i", "n",
                           "e", "{", "t", "o", "c",
                           "}", "{", "c", "h", "a",
                           "p", "t", "e", "r", "}",
                           "{">>
                      \o apply_text_replacements(Top.text, IN_TEXT_REPLACEMENT_TABLE,
                                                 in_order)
                      \o <<"}", "\n", "\n">>
               /\ is_add_heading_to_contents' = FALSE
               /\ heading_content_string' = None
          ELSE output' = output \o <<"}", "\n", "\n">>]_vars

\* Whether the parser is inside an image.
InsideImage(stack) == \E i \in 1..Len(stack) : stack[i].tag = "Image"

\* C20: an event inside the alt content of an image (the parser is inside
\* the image before and after it) appends nothing to the output.
C20_OutputUnchangedInsideImage ==
    [][(InsideImage(open) /\ InsideImage(open')) => output' = output]_vars

\* C12: preprocess and the translator agree on what a raw-LaTeX block is:
\* for an opener whose fence-info holds the tokens latex and raw, in either
\* order and with any spacing, preprocess copies the block as it stands, and
\* the translator emits the body with no escaping and no wrapper.
C12_RawBlockAgreement ==
    \A opener \in RawOpeners :
        markdown = JoinLines(<<opener, CiteLine(<<"k">>), S_fence>>)
        => /\ pre_pc = "done" => pre_output = markdown
           /\ pc = "returned" => output = CiteLine(<<"k">>) \o <<"\n">>

\* C13: on the in-text table the inverse replacement undoes the forward
\* replacement, whatever order the entries are iterated in: the text
\* restored from the replaced text is the text itself.
C13_InverseRestores ==
    (r_pc = "restored" /\ r_table = "intext") => r_back = r_text

\* a text with a backslash before a key, restored under an iteration order
\* other than the source's
C13_Witness ==
    /\ r_pc = "restored"
    /\ r_table = "intext"
    /\ r_text = <<"\\", "&", "_">>
    /\ r_out = <<"\\", "\\", "&", "\\", "_">>
    /\ in_order # SourceOrder(IN_TEXT_REPLACEMENT_TABLE)

\* C14: the environments of code blocks are balanced: outside a code block
\* the output holds as many listing closers as listing openers, and as many
\* equation closers as equation openers.
C14_BalancedEnvironments ==
    Top.tag # "CodeBlock"
    => /\ Count(output, S_begin_lstlisting) = Count(output, S_end_lstlisting)
       /\ Count(output, S_begin_equation) = Count(output, S_end_equation)

\* C15: codeblock_status is other than None exactly while the parser is
\* inside a code block; and a Text event is emitted verbatim inside a code
\* block and with the in-text replacement applied outside (no image is open
\* here).
C15_StatusTracksCodeBlock ==
    [][/\ (codeblock_status # KindNone) <=> (Top.tag = "CodeBlock")
       /\ (codeblock_status'.kind \in {"Code", "RawLatex", "Equation"})
             <=> (open' # <<>> /\ open'[Len(open')].tag = "CodeBlock")
       /\ (yielded' = <<"Text", "-">> /\ budget' = budget - 1)
          => \E text \in Texts :
                /\ open'[Len(open')].text = Top.text \o text
                /\ output' = output \o
                      (IF Top.tag = "CodeBlock" THEN text
                       ELSE apply_text_replacements(text, IN_TEXT_REPLACEMENT_TABLE,
                                                    in_order))]_vars

\* a text emitted verbatim in a listing, and the same text escaped in the
\* paragraph after it
C15_Witness ==
    output = <<"\\", "b", "e", "g", "i", "n", "{", "l", "s", "t", "l", "i",
               "s", "t", "i", "n", "g", "}", "\n", "a", " ", "&",
               " ", "b", "\\", "e", "n", "d", "{", "l", "s", "t",
               "l", "i", "s", "t", "i", "n", "g", "}", "\n", "\n",
               "a", " ", "\\", "&", " ", "b">>

\* C19: an event no arm lists leaves the output and every variable of the
\* translator unchanged.
C19_UnlistedEventsIgnored ==
    [][(yielded' \in UnlistedEvents /\ (budget' # budget \/ open' # open))
       => UNCHANGED transVars]_vars

\* a strikethrough span has started after text of a paragraph
C19_Witness ==
    /\ yielded = <<"Start", "Strikethrough">>
    /\ output = <<"T">>

\* Whether the lines are an equation block that is not terminated: an
\* opening $$ line, and no later line that is exactly $$ once trimmed.
Unterminated(ls) ==
    /\ ls # <<>>
    /\ StartsWith(Trim(ls[1]), S_dollars)
    /\ \A i \in 2..Len(ls) : Trim(ls[i]) # S_dollars

\* C18: preprocess terminates, having consumed every line of the input,
\* one line at a time; for an equation block that is not terminated its
\* output ends with the remaining lines as they stand and a closing fence;
\* and for the empty input its output is empty.
C18_PreprocessTotal ==
    /\ <>(pre_pc = "done")
    /\ [](pre_pc = "done"
            => /\ lines = <<>>
               /\ markdown = <<>> => pre_output = <<>>
               /\ Unterminated(Lines(markdown))
                  => EndsWith(pre_output,
                              JoinLines(Tail(Lines(markdown))) \o S_fence \o <<"\n">>))
    /\ [][pre_pc # "start"
            => IF lines = <<>> THEN lines' = <<>>
               ELSE lines' \in {lines, Tail(lines)}]_vars

\* preprocess has returned on an equation block of two body lines that is
\* not terminated
C18_Witness ==
    /\ pre_pc = "done"
    /\ markdown = JoinLines(<< <<"$", "$", " ", "L">>, <<"x">>,
                               <<"[", BT, "k", BT, "]">> >>)

\* C17: when the program has returned on a paragraph that is the shorthand
\* for a reference to the label L, its result is \ref{L} and the end of the
\* paragraph.
C17_ReferenceShorthand ==
    \A lbl \in RefLabels :
        (pc = "returned" /\ markdown = JoinLines(<<RefLine(lbl)>>))
        => latex = <<"\\", "r", "e", "f", "{">> \o lbl \o <<"}", "\n", "\n">>

====
